---- MODULE Spec2Model ----
(***************************************************************************)
(* Model of NSRLConverter (src/nsrl_to_uco.py): the identifier registry    *)
(* (get_uuid_for_id / create_identifier), process_file and process_input.  *)
(*                                                                         *)
(* Strings are sequences of tokens.  A token is a block of characters that *)
(* is never split: a single character of an input value ("a", ".", "-"),   *)
(* or a fixed word of the program ("file", "unknown", "kb:").  A hyphen is *)
(* always a token of its own, so that joining with "-" is modelled as the  *)
(* f-strings of the source do it.                                          *)
(*                                                                         *)
(* A JSON object (a Python dict) is a record whose DOMAIN is the set of    *)
(* keys present, plus the field kind = "object"; a JSON value of another   *)
(* kind where an object is expected is [kind |-> "string"].                *)
(***************************************************************************)
EXTENDS Integers, Sequences, FiniteSets, TLC

\* Bounds of the model.
MaxUnits == 2      \* input files found in a directory
MaxInput == 3      \* records and file entries read by one run, over all its units

VARIABLES
  mode,              \* "file": input_path.is_file(); "dir": is_dir(); "none": neither
  combine,           \* NSRLConverter.combine
  nunits,            \* number of input units (1 in file mode, the glob's length in dir mode)
  pc,                \* position of process_input / process_file
  idx,               \* units whose process_file call has returned
  now,               \* the wall clock
  uuids,             \* NSRLConverter.uuids: key -> uuid string
  nextUuid,          \* number of uuid4() values drawn so far
  issued,            \* history: every (prefix, id_str, id) create_identifier returned
  current_time,      \* process_file: current_time
  action_id,         \* process_file: action_id
  objects,           \* process_file: objects
  media_list,        \* history: the records of the current unit read so far
  media_id,          \* process_file: media_id of the record in progress
  file_obj,          \* process_file: file_obj of the record in progress
  ninput,            \* records and file entries read so far by the run
  result,            \* process_input: result of the last process_file call
  written,           \* output directory: unit index -> @graph of uco-<stem>.json
  combined_results,  \* process_input: combined_results
  processed_count,   \* process_input: processed_count
  error_count,       \* process_input: error_count
  combined_doc,      \* output directory: <<@graph>> of uco-combined.json, <<>> if not written
  tally              \* the final log line: <<>> or <<[processed, errors]>>

vars == <<mode, combine, nunits, pc, idx, now, uuids, nextUuid, issued,
          current_time, action_id, objects, media_list, media_id, file_obj,
          ninput, result, written, combined_results,
          processed_count, error_count, combined_doc, tally>>

----------------------------------------------------------------------------
\* Input values.

\* the literal "unknown" of media.get("MediaID", "unknown") and media_file.get("MD5", "unknown")
Unknown == <<"unknown">>

\* the MediaID values of the input records
MediaIDs == {<<"m">>, Unknown}

\* the record headers: a dict with or without MediaID, or a value that is no dict
MediaHeaders ==
  {[kind |-> "object"]} \cup {[kind |-> "object", MediaID |-> m] : m \in MediaIDs}
    \cup {[kind |-> "string"]}

\* the file entries: complete, without FilePath and MD5, with an empty MD5, no dict
FileEntries ==
  { [kind |-> "object", FileName |-> <<"a", ".", "t">>, FilePath |-> <<"p">>, MD5 |-> <<"d", "4">>],
    [kind |-> "object", FileName |-> <<"b">>],
    [kind |-> "object", FileName |-> <<"b">>, FilePath |-> <<"p">>, MD5 |-> <<>>],
    [kind |-> "string"] }

\* dict.get(k) with the default left out: the empty value for an absent key
Get_without_default(d, k, default) == IF k \in DOMAIN d THEN d[k] ELSE <<>>

\* dict.get(k, default)
Get(d, k, default) == IF k \in DOMAIN d THEN d[k] ELSE default

\* str.upper(), token by token
UpperChar(c) ==
  CASE c = "a" -> "A" [] c = "b" -> "B" [] c = "d" -> "D" [] c = "m" -> "M"
    [] c = "p" -> "P" [] c = "t" -> "T" [] c = "unknown" -> "UNKNOWN"
    [] OTHER -> c

Upper(s) == [i \in 1..Len(s) |-> UpperChar(s[i])]

\* None, and a returned uco_object (only its "@graph" is modelled)
None == [isNone |-> TRUE, graph |-> <<>>]

UcoObject(objs) == [isNone |-> FALSE, graph |-> objs]

----------------------------------------------------------------------------
\* Identifier registry.  reg = [uuids, next, issued].

\* str(uuid.uuid4()): the n-th value drawn, distinct from every other
Uuid4(n) == "uuid" \o ToString(n)

\* the key f"{prefix}-{id_str}"
RegistryKey(prefix, id_str) == <<prefix, "-">> \o id_str

\* get_uuid_for_id without the "key not in self.uuids" test: every call draws a uuid
get_uuid_for_id_always_new(reg, prefix, id_str) ==
  LET key == RegistryKey(prefix, id_str)
      reg2 == [reg EXCEPT !.uuids = (key :> Uuid4(reg.next)) @@ reg.uuids,
                          !.next = reg.next + 1]
  IN [reg |-> reg2, val |-> reg2.uuids[key]]

get_uuid_for_id(reg, prefix, id_str) ==
  LET key == RegistryKey(prefix, id_str)
      reg2 == IF key \notin DOMAIN reg.uuids
              THEN [reg EXCEPT !.uuids = (key :> Uuid4(reg.next)) @@ reg.uuids,
                               !.next = reg.next + 1]
              ELSE reg
  IN [reg |-> reg2, val |-> reg2.uuids[key]]

\* the identifier f"kb:{prefix}-{id_str}-{uuid_str}"
Identifier(prefix, id_str, uuid_str) == <<"kb:", prefix, "-">> \o id_str \o <<"-", uuid_str>>

create_identifier(reg, prefix, id_str) ==
  LET r == get_uuid_for_id(reg, prefix, id_str)
      id == Identifier(prefix, id_str, r.val)
  IN [reg |-> [r.reg EXCEPT !.issued = @ \cup {[prefix |-> prefix, id_str |-> id_str, id |-> id]}],
      val |-> id]

Registry == [uuids |-> uuids, next |-> nextUuid, issued |-> issued]

SetRegistry(reg) ==
  /\ uuids' = reg.uuids
  /\ nextUuid' = reg.next
  /\ issued' = reg.issued

----------------------------------------------------------------------------
\* Node shapes of process_file.

Relationship(id, src, tgt, kindOf, t) ==
  [id |-> id, type |-> "uco-core:Relationship", source |-> src, target |-> tgt,
   kindOfRelationship |-> kindOf, isDirectional |-> TRUE, objectCreatedTime |-> t]

\* the base objects and the two fixed relationships
BaseObjects(bundle_id, tool_id, nist_id, source_id, act_id, rel1_id, rel2_id, t) ==
  << [id |-> bundle_id, type |-> "uco-core:Bundle", objectCreatedTime |-> t],
     [id |-> nist_id, type |-> "uco-identity:Organization"],
     [id |-> source_id, type |-> "uco-observable:URL"],
     [id |-> tool_id, type |-> "uco-tool:ConfiguredTool", objectCreatedTime |-> t],
     [id |-> act_id, type |-> "uco-action:Action", startTime |-> t, endTime |-> t,
      performer |-> tool_id],
     Relationship(rel1_id, source_id, nist_id, "maintainedBy", t),
     Relationship(rel2_id, act_id, source_id, "inputSource", t) >>

FileObject(file_id, t) ==
  [id |-> file_id, type |-> "uco-observable:File", objectCreatedTime |-> t, hasFacet |-> <<>>]

HashObject(hash_id, media_file) ==
  [id |-> hash_id, type |-> "uco-types:Hash", hashMethod |-> "MD5",
   hashValue |-> Upper(Get(media_file, "MD5", <<>>))]

FileFacet(facet_id, hash_id, media_file) ==
  [id |-> facet_id, type |-> "uco-observable:FileFacet",
   fileName |-> Get(media_file, "FileName", <<>>),
   filePath |-> Get(media_file, "FilePath", <<>>),
   hash |-> <<hash_id>>]

----------------------------------------------------------------------------
Init ==
  /\ mode \in {"file", "dir", "none"}
  /\ combine \in BOOLEAN
  /\ nunits \in 0..MaxUnits
  /\ mode = "file" => nunits = 1
  /\ mode = "none" => nunits = 0
  /\ pc = IF nunits > 0 THEN "open" ELSE "finish"
  /\ idx = 0
  /\ now = 0
  /\ uuids = <<>>
  /\ nextUuid = 0
  /\ issued = {}
  /\ current_time = 0
  /\ action_id = <<>>
  /\ objects = <<>>
  /\ media_list = <<>>
  /\ media_id = <<>>
  /\ file_obj = FileObject(<<>>, 0)
  /\ ninput = 0
  /\ result = None
  /\ written = <<>>
  /\ combined_results = <<>>
  /\ processed_count = 0
  /\ error_count = 0
  /\ combined_doc = <<>>
  /\ tally = <<>>

\* the except clause of process_file: log, return None
ReturnNone ==
  /\ result' = None
  /\ pc' = "handle"

\* process_file up to the record loop: read and parse the input, check the
\* format, read the clock, build the base objects and relationships.
ProcessFileOpen ==
  /\ pc = "open"
  /\ \E input \in {"unreadable", "novalue", "value"} :
       IF input # "value"
       THEN /\ ReturnNone
            /\ UNCHANGED <<uuids, nextUuid, issued, current_time, action_id, objects,
                           media_list>>
       ELSE LET t == now
                r1 == create_identifier(Registry, "bundle", <<"nsrl", "-", "caid">>)
                r2 == create_identifier(r1.reg, "tool", <<"nsrl", "-", "to", "-", "uco">>)
                r3 == create_identifier(r2.reg, "org", <<"nist">>)
                r4 == create_identifier(r3.reg, "source", <<"nsrl", "-", "caid">>)
                r5 == create_identifier(r4.reg, "action", <<"conversion">>)
                r6 == create_identifier(r5.reg, "relationship", <<"source", "-", "maintainer">>)
                r7 == create_identifier(r6.reg, "relationship", <<"action", "-", "source">>)
            IN /\ current_time' = t
               /\ action_id' = r5.val
               /\ objects' = BaseObjects(r1.val, r2.val, r3.val, r4.val, r5.val,
                                         r6.val, r7.val, t)
               /\ SetRegistry(r7.reg)
               /\ media_list' = <<>>
               /\ pc' = "records"
               /\ UNCHANGED result
  /\ UNCHANGED <<mode, combine, nunits, idx, now, media_id, file_obj, ninput,
                 written, combined_results, processed_count, error_count, combined_doc,
                 tally>>

\* the head of one iteration of "for media in media_list": media_id, file_id, file_obj
ReadRecord(headers, max) ==
  /\ pc = "records"
  /\ ninput < max
  /\ ninput' = ninput + 1
  /\ \E media \in headers, hasFiles \in BOOLEAN :
       IF media.kind # "object"
       THEN /\ hasFiles = FALSE
            /\ ReturnNone
            /\ media_list' = Append(media_list, media)
            /\ UNCHANGED <<uuids, nextUuid, issued, media_id, file_obj>>
       ELSE LET mid == Get(media, "MediaID", Unknown)
                r == create_identifier(Registry, "file", mid)
            IN /\ media_id' = mid
               /\ file_obj' = FileObject(r.val, current_time)
               /\ SetRegistry(r.reg)
               /\ media_list' = Append(media_list,
                                  IF hasFiles THEN [MediaFiles |-> <<>>] @@ media ELSE media)
               /\ pc' = IF hasFiles THEN "entries" ELSE "endrecord"
               /\ UNCHANGED result
  /\ UNCHANGED <<mode, combine, nunits, idx, now, current_time, action_id, objects,
                 written, combined_results, processed_count, error_count, combined_doc,
                 tally>>

\* the record loop head, on the records of the model's input
BeginRecord == ReadRecord(MediaHeaders, MaxInput)

\* one iteration of "for media_file in media.get('MediaFiles', [])", the file
\* entry drawn from entries
ReadEntry(entries, max) ==
  /\ pc = "entries"
  /\ ninput < max
  /\ ninput' = ninput + 1
  /\ \E media_file \in entries :
       /\ media_list' = [media_list EXCEPT ![Len(media_list)].MediaFiles = Append(@, media_file)]
       /\ IF media_file.kind # "object"
          THEN /\ ReturnNone
               /\ UNCHANGED <<uuids, nextUuid, issued, objects, file_obj>>
          ELSE LET md5 == Get(media_file, "MD5", Unknown)
                   r1 == create_identifier(Registry, "facet", media_id \o <<"-">> \o md5)
                   r2 == create_identifier(r1.reg, "hash", md5)
               IN /\ file_obj' = [file_obj EXCEPT !.hasFacet = Append(@, r1.val)]
                  /\ objects' = objects \o <<FileFacet(r1.val, r2.val, media_file),
                                             HashObject(r2.val, media_file)>>
                  /\ SetRegistry(r2.reg)
                  /\ UNCHANGED <<pc, result>>
  /\ UNCHANGED <<mode, combine, nunits, idx, now, current_time, action_id, media_id,
                 written, combined_results, processed_count, error_count, combined_doc,
                 tally>>

\* the file entry loop, on the file entries of the model's input
ProcessEntry == ReadEntry(FileEntries, MaxInput)

\* RecordTail that emits the file object only when it has a facet
RecordTail_skips_bare_file(objs, rel, fobj) ==
  IF fobj.hasFacet = <<>> THEN objs \o <<rel>> ELSE objs \o <<rel, fobj>>

\* the tail of one iteration of the record loop: the action-file relationship, the file object
RecordTail(objs, rel, fobj) == objs \o <<rel, fobj>>

EndRecord ==
  /\ pc \in {"entries", "endrecord"}
  /\ LET r == create_identifier(Registry, "relationship",
                                <<"action", "-", "file", "-">> \o media_id)
     IN /\ objects' = RecordTail(objects,
                                 Relationship(r.val, action_id, file_obj.id, "outputFile",
                                              current_time),
                                 file_obj)
        /\ SetRegistry(r.reg)
  /\ pc' = "records"
  /\ UNCHANGED <<mode, combine, nunits, idx, now, current_time, action_id, media_list,
                 media_id, file_obj, ninput, result, written, combined_results,
                 processed_count, error_count, combined_doc, tally>>

\* WriteResult that leaves a created, empty uco-<stem>.json behind when it fails
WriteResult_leaves_file(writable, unit, objs, files) ==
  IF writable
  THEN [written |-> (unit :> objs) @@ files, result |-> UcoObject(objs)]
  ELSE [written |-> (unit :> <<>>) @@ files, result |-> None]

\* "with open(output_file, 'w')": the file is opened and the whole document
\* dumped, then uco_object is returned; or open raises, nothing is written
\* and the except clause returns None
WriteResult(writable, unit, objs, files) ==
  IF writable
  THEN [written |-> (unit :> objs) @@ files, result |-> UcoObject(objs)]
  ELSE [written |-> files, result |-> None]

\* the record loop is over: write uco-<stem>.json and return
WriteOutput ==
  /\ pc = "records"
  /\ \E writable \in BOOLEAN :
       LET w == WriteResult(writable, idx + 1, objects, written)
       IN /\ written' = w.written
          /\ result' = w.result
  /\ pc' = "handle"
  /\ UNCHANGED <<mode, combine, nunits, idx, now, uuids, nextUuid, issued, current_time,
                 action_id, objects, media_list, media_id, file_obj, ninput,
                 combined_results, processed_count, error_count, combined_doc, tally>>

\* process_input, file branch: count the result
HandleResultFile ==
  /\ pc = "handle"
  /\ mode = "file"
  /\ idx' = idx + 1
  /\ IF ~result.isNone
     THEN /\ processed_count' = processed_count + 1
          /\ combined_results' = IF combine THEN Append(combined_results, result.graph[1])
                                 ELSE combined_results
          /\ UNCHANGED error_count
     ELSE /\ error_count' = error_count + 1
          /\ UNCHANGED <<processed_count, combined_results>>
  /\ pc' = "finish"
  /\ UNCHANGED <<mode, combine, nunits, now, uuids, nextUuid, issued, current_time, action_id,
                 objects, media_list, media_id, file_obj, ninput, result, written,
                 combined_doc, tally>>

\* process_input, directory branch: a result calls self._write_output, which
\* the class does not define, so AttributeError leaves process_input; None is
\* counted as an error and the loop goes on.  Time passes before the next unit.
HandleResultDir ==
  /\ pc = "handle"
  /\ mode = "dir"
  /\ idx' = idx + 1
  /\ IF ~result.isNone
     THEN /\ pc' = "crashed"
          /\ UNCHANGED <<error_count, now>>
     ELSE /\ error_count' = error_count + 1
          /\ pc' = IF idx + 1 < nunits THEN "open" ELSE "finish"
          /\ \E dt \in 0..1 : now' = now + dt
  /\ UNCHANGED <<mode, combine, nunits, uuids, nextUuid, issued, current_time, action_id,
                 objects, media_list, media_id, file_obj, ninput, result, written,
                 combined_results, processed_count, combined_doc, tally>>

\* process_input after the branches: the combined file, the final log line
Finish ==
  /\ pc = "finish"
  /\ IF combine /\ combined_results # <<>>
     THEN \E writable \in BOOLEAN :
            IF writable
            THEN /\ combined_doc' = <<combined_results>>
                 /\ tally' = <<[processed |-> processed_count, errors |-> error_count]>>
                 /\ pc' = "done"
            ELSE /\ pc' = "crashed"
                 /\ UNCHANGED <<combined_doc, tally>>
     ELSE /\ tally' = <<[processed |-> processed_count, errors |-> error_count]>>
          /\ pc' = "done"
          /\ UNCHANGED combined_doc
  /\ UNCHANGED <<mode, combine, nunits, idx, now, uuids, nextUuid, issued, current_time,
                 action_id, objects, media_list, media_id, file_obj, ninput,
                 result, written, combined_results, processed_count, error_count>>

Next ==
  \/ ProcessFileOpen
  \/ BeginRecord
  \/ ProcessEntry
  \/ EndRecord
  \/ WriteOutput
  \/ HandleResultFile
  \/ HandleResultDir
  \/ Finish

Spec == Init /\ [][Next]_vars

----------------------------------------------------------------------------
\* The same program on input whose MediaID and MD5 values contain hyphens.

MaxHyphenInput == 4   \* records and file entries read by one run of SpecHyphen

HyphenMediaIDs == {<<"m">>, <<"m", "-", "d">>}

HyphenHeaders == {[kind |-> "object", MediaID |-> m] : m \in HyphenMediaIDs}

HyphenEntries ==
  { [kind |-> "object", FileName |-> <<"a", ".", "t">>, MD5 |-> <<"4">>],
    [kind |-> "object", FileName |-> <<"b">>, MD5 |-> <<"d", "-", "4">>] }

BeginRecordHyphen == ReadRecord(HyphenHeaders, MaxHyphenInput)

ProcessEntryHyphen == ReadEntry(HyphenEntries, MaxHyphenInput)

NextHyphen ==
  \/ ProcessFileOpen
  \/ BeginRecordHyphen
  \/ ProcessEntryHyphen
  \/ EndRecord
  \/ WriteOutput
  \/ HandleResultFile
  \/ HandleResultDir
  \/ Finish

SpecHyphen == Init /\ [][NextHyphen]_vars

----------------------------------------------------------------------------
\* Properties.

Graph == result.graph

IsRelationship(n) == n.type = "uco-core:Relationship"
IsFile(n) == n.type = "uco-observable:File"
IsFileFacet(n) == n.type = "uco-observable:FileFacet"
IsHash(n) == n.type = "uco-types:Hash"

\* process_file has just returned a graph / has just returned
Returned == pc = "handle"
ReturnedGraph == pc = "handle" /\ ~result.isNone

\* C1: every identifier create_identifier has returned for a (prefix, id_str)
\* pair is the one its cached uuid gives now: two calls with the same pair
\* returned the same identifier, and the cached entry is still there, unchanged.
C1_StableIdentifiers ==
  /\ \A a \in issued :
       LET key == RegistryKey(a.prefix, a.id_str)
       IN /\ key \in DOMAIN uuids
          /\ a.id = Identifier(a.prefix, a.id_str, uuids[key])
  /\ \A a, b \in issued :
       (a.prefix = b.prefix /\ a.id_str = b.id_str) => a.id = b.id

\* a second unit has asked again for the identifiers the first unit asked for,
\* after the first unit read a record
C1_Witness ==
  /\ idx >= 1
  /\ pc = "records"
  /\ nextUuid > 7
  /\ \E a \in issued : a.prefix = "bundle" /\ a.id = objects[1].id

\* C2: the graph process_file returns has no two nodes with the same @id.
C2_UniqueNodeIds ==
  ReturnedGraph =>
    \A i, j \in DOMAIN Graph : i # j => Graph[i].id # Graph[j].id

\* C3: in the graph process_file returns, the source and the target of every
\* Relationship node are ids of other nodes of the same graph.
C3_NoDanglingEdges ==
  ReturnedGraph =>
    \A i \in DOMAIN Graph :
      IsRelationship(Graph[i]) =>
        /\ \E j \in DOMAIN Graph : j # i /\ Graph[j].id = Graph[i].source
        /\ \E j \in DOMAIN Graph : j # i /\ Graph[j].id = Graph[i].target

\* a returned graph with the relationship of a record to a file without facets
C3_Witness ==
  /\ ReturnedGraph
  /\ \E i, j \in DOMAIN Graph :
       /\ IsRelationship(Graph[i])
       /\ Graph[i].kindOfRelationship = "outputFile"
       /\ IsFile(Graph[j])
       /\ Graph[j].id = Graph[i].target
       /\ Graph[j].hasFacet = <<>>

\* C4: when process_input has ended, by returning or by an exception, every
\* unit of the batch has been attempted.
C4_BatchContinues ==
  pc \in {"done", "crashed"} => idx = nunits

RECURSIVE DedupById(_, _)
\* the nodes in order of first appearance, each id once
DedupById(nodes, seen) ==
  IF nodes = <<>> THEN <<>>
  ELSE IF Head(nodes).id \in seen THEN DedupById(Tail(nodes), seen)
       ELSE <<Head(nodes)>> \o DedupById(Tail(nodes), seen \cup {Head(nodes).id})

RECURSIVE WrittenNodes(_)
\* the node lists of the units 1..n whose document was written, in order
WrittenNodes(n) ==
  IF n = 0 THEN <<>>
  ELSE WrittenNodes(n - 1) \o (IF n \in DOMAIN written THEN written[n] ELSE <<>>)

\* C5: the member list of uco-combined.json is the node lists of the
\* successfully processed units merged in order of first appearance, each id once.
C5_CombinedIsDedupMerge ==
  combined_doc # <<>> => combined_doc[1] = DedupById(WrittenNodes(nunits), {})

IsMalformedRecord(m) == m.kind = "object" /\ "MediaFiles" \notin DOMAIN m

IsValidRecord(m) ==
  /\ m.kind = "object"
  /\ "MediaFiles" \in DOMAIN m
  /\ Len(m.MediaFiles) >= 1
  /\ \A k \in DOMAIN m.MediaFiles : m.MediaFiles[k].kind = "object"

\* the ids create_identifier has returned for (prefix, id_str)
IdsOf(prefix, id_str) == {a.id : a \in {b \in issued : b.prefix = prefix /\ b.id_str = id_str}}

\* C6: a unit of one record without MediaFiles and one valid record (of another
\* MediaID) yields a graph without File or relationship node of the malformed
\* record, and an error count of 1.
C6_GracefulSkip ==
  \A i, j \in 1..2 :
    ( /\ pc = "done" /\ mode = "file" /\ ~result.isNone
      /\ Len(media_list) = 2 /\ i # j
      /\ IsMalformedRecord(media_list[i]) /\ IsValidRecord(media_list[j])
      /\ Get(media_list[i], "MediaID", Unknown) # Get(media_list[j], "MediaID", Unknown) )
    => LET bad == Get(media_list[i], "MediaID", Unknown)
       IN /\ \A k \in DOMAIN Graph :
               /\ Graph[k].id \notin IdsOf("file", bad)
               /\ Graph[k].id \notin IdsOf("relationship", <<"action", "-", "file", "-">> \o bad)
          /\ error_count = 1

RECURSIVE LastDot(_, _)
\* the index of the last "." among the first n tokens of f, 0 if there is none
LastDot(f, n) == IF n = 0 THEN 0 ELSE IF f[n] = "." THEN n ELSE LastDot(f, n - 1)

\* the part of f after its last dot
AfterLastDot(f) ==
  IF LastDot(f, Len(f)) = 0 THEN <<>> ELSE SubSeq(f, LastDot(f, Len(f)) + 1, Len(f))

\* the unit has one record with one file entry, of a dotted FileName and a non-empty MD5
SingleEntryUnit ==
  /\ Len(media_list) = 1
  /\ media_list[1].kind = "object"
  /\ "MediaFiles" \in DOMAIN media_list[1]
  /\ Len(media_list[1].MediaFiles) = 1
  /\ media_list[1].MediaFiles[1].kind = "object"
  /\ {"FileName", "MD5"} \subseteq DOMAIN media_list[1].MediaFiles[1]
  /\ media_list[1].MediaFiles[1].MD5 # <<>>
  /\ LastDot(media_list[1].MediaFiles[1].FileName, Len(media_list[1].MediaFiles[1].FileName)) > 0

\* C7: the graph of a unit with one record with one file entry (FileName f,
\* MD5 h) has exactly one Hash node, of hashValue h uppercased, and exactly one
\* FileFacet node, of fileName f and extension the part of f after its last dot.
C7_RoundTripAttributes ==
  (ReturnedGraph /\ SingleEntryUnit) =>
    LET e == media_list[1].MediaFiles[1]
        hashes == SelectSeq(Graph, IsHash)
        facets == SelectSeq(Graph, IsFileFacet)
    IN /\ Len(hashes) = 1
       /\ hashes[1].hashValue = Upper(e.MD5)
       /\ Len(facets) = 1
       /\ facets[1].fileName = e.FileName
       /\ "extension" \in DOMAIN facets[1]
       /\ facets[1].extension = AfterLastDot(e.FileName)

RECURSIVE AllEntries(_)
\* the file entries of the records, in order
AllEntries(ml) ==
  IF ml = <<>> THEN <<>>
  ELSE Get(Head(ml), "MediaFiles", <<>>) \o AllEntries(Tail(ml))

\* C8: the facet of a file entry without FilePath has no filePath key, and no
\* node has a sizeInBytes key (no record supplies a size).
C8_AbsentFieldsOmitted ==
  ReturnedGraph =>
    LET entries == AllEntries(media_list)
        facets == SelectSeq(Graph, IsFileFacet)
    IN /\ Len(facets) = Len(entries)
       /\ \A k \in DOMAIN facets :
            "FilePath" \notin DOMAIN entries[k] => "filePath" \notin DOMAIN facets[k]
       /\ \A k \in DOMAIN Graph : "sizeInBytes" \notin DOMAIN Graph[k]

C10_NoEmptyHash ==
  ReturnedGraph =>
    LET entries == AllEntries(media_list)
        facets == SelectSeq(Graph, IsFileFacet)
    IN /\ \A k \in DOMAIN Graph : IsHash(Graph[k]) => Graph[k].hashValue # <<>>
       /\ Len(facets) = Len(entries)
       /\ \A k \in DOMAIN facets :
            Get(entries[k], "MD5", <<>>) = <<>> =>
              ("hash" \notin DOMAIN facets[k] \/ facets[k].hash = <<>>)

\* the elements of a sequence
Range(q) == {q[k] : k \in DOMAIN q}

\* C11: in the graph process_file returns, two File nodes with different ids
\* share no facet id, and every id of a hasFacet list is the @id of a FileFacet
\* node of the graph.
C11_FacetsNotShared ==
  ReturnedGraph =>
    /\ \A i, j \in DOMAIN Graph :
         (IsFile(Graph[i]) /\ IsFile(Graph[j]) /\ Graph[i].id # Graph[j].id)
           => Range(Graph[i].hasFacet) \cap Range(Graph[j].hasFacet) = {}
    /\ \A i \in DOMAIN Graph :
         IsFile(Graph[i]) =>
           \A f \in Range(Graph[i].hasFacet) :
             \E k \in DOMAIN Graph : IsFileFacet(Graph[k]) /\ Graph[k].id = f

\* the values of the time attributes of a node
TimesOf(n) ==
  {n[a] : a \in DOMAIN n \cap {"objectCreatedTime", "startTime", "endTime"}}

\* the timestamp values the nodes of a list carry
TimesIn(objs) == UNION {TimesOf(objs[k]) : k \in DOMAIN objs}

\* C12: the nodes appended to the node list in one run of process_input, over
\* all its units, carry one timestamp value: a step never leaves the list with
\* a timestamp other than the one its nodes carried before.
C12_OneTimestampPerRun ==
  [][Cardinality(TimesIn(objects) \cup TimesIn(objects')) <= 1]_vars

\* C13: every record read without MediaID, or with the MediaID "unknown", has
\* its File node in the node list, and the id of that node is the one
\* identifier of the run for ("file", "unknown").
C13_UnknownKey ==
  pc = "records" =>
    LET files == SelectSeq(objects, IsFile)
    IN /\ Len(files) = Len(media_list)
       /\ \A k \in DOMAIN media_list :
            ("MediaID" \notin DOMAIN media_list[k] \/ media_list[k].MediaID = Unknown)
              => /\ RegistryKey("file", Unknown) \in DOMAIN uuids
                 /\ files[k].id = Identifier("file", Unknown, uuids[RegistryKey("file", Unknown)])

\* a unit has converted a record without MediaID and a record of MediaID "unknown"
C13_Witness ==
  /\ pc = "records"
  /\ Len(media_list) = 2
  /\ \E i, j \in 1..2 :
       /\ "MediaID" \notin DOMAIN media_list[i]
       /\ "MediaID" \in DOMAIN media_list[j]
       /\ media_list[j].MediaID = Unknown

\* C14: when process_input has ended, the final tally has been logged, every
\* unit is counted once as processed or as an error, and processed_count is
\* the number of units whose output document was written.
C14_FinalTally ==
  pc \in {"done", "crashed"} =>
    /\ tally = <<[processed |-> processed_count, errors |-> error_count]>>
    /\ processed_count + error_count = nunits
    /\ processed_count = Cardinality(DOMAIN written)

====
